---- MODULE Spec2Model ----
(***************************************************************************)
(* Affinity binding protocol layer of hwlocality: the CPU binding flag     *)
(* validator, the eight CPU binding entry points of Topology with their    *)
(* native invocation and error translation, and the memory binding flag    *)
(* validator.                                                              *)
(*                                                                         *)
(* A flag set (bitflags!) is modelled as the set of its bit positions;     *)
(* bits() turns it into the integer the native function receives.          *)
(* An Option<T> is a set with at most one element: None is {}, Some(x) is  *)
(* {x}.                                                                    *)
(***************************************************************************)
EXTENDS Integers, FiniteSets, Sequences, TLC

VARIABLES
    target_os,   \* the platform the crate was compiled for (cfg!(target_os))
    pc,          \* "idle": no call in progress; "returned": a call has returned
    call,        \* the entry point called last and its arguments
    validated,   \* what validate returned during that call
    native,      \* the native invocations made during that call, in order
    hwloc_ret,   \* what call_hwloc returned during that call (None: it was not called)
    cpusets,     \* number of CpuSet::new() made during that call
    ret,         \* what the call returned to its caller (or that it panicked)
    mem_call,    \* last (flags, target, operation) given to MemoryBindingFlags::is_valid
    mem_valid,   \* what is_valid returned for it
    mem_request, \* the memory binding request made last and the outcome of its native call
    mem_ret,     \* what setup_result / query_result_lazy made of that outcome
    observed,    \* the process or thread whose OS-level affinity is followed
    affinity,    \* the CPU set the OS holds for it
    bound_ok,    \* TRUE once a bind call addressing it has returned Ok
    wrapped,     \* the arguments Bytes::wrap was called with
    bytes,       \* what it returned: None or the Bytes
    bytes_state, \* "unwrapped", "refused", "Allocated", "Released", "panicked"
    view,        \* the slice as_ref / as_mut handed out last
    frees,       \* the hwloc_free invocations made so far, in order
    children,    \* the last walk of a list of children: the object, what was yielded
    info_eq      \* the last comparison of two TextualInfo: the strings, the answer

vars == <<target_os, pc, call, validated, native, hwloc_ret, cpusets, ret, mem_call, mem_valid,
          mem_request, mem_ret, observed, affinity, bound_ok,
          wrapped, bytes, bytes_state, view, frees, children, info_eq>>

cpu_vars == <<pc, call, validated, native, hwloc_ret, cpusets, ret>>
mem_vars == <<mem_call, mem_valid>>
mem_result_vars == <<mem_request, mem_ret>>
os_vars == <<observed, affinity, bound_ok>>
bytes_vars == <<wrapped, bytes, bytes_state, view, frees>>
\* the values of the crate's data types
data_vars == <<bytes_vars, children, info_eq>>

----------------------------------------------------------------------------
(* Bounds of the model *)

\* CPU indices are 0..MaxCpu
MaxCpu == 1
\* process and thread identifiers are 1..MaxPid
MaxPid == 2
\* the native functions return -MaxFailure..MaxResult
MaxResult == 1
MaxFailure == 2
\* errno values besides the named ones are 1..MaxOtherErrno
MaxOtherErrno == 1
\* non-null addresses are 1..MaxAddr
MaxAddr == 2
\* an allocation holds 0..MaxLen bytes
MaxLen == 2
\* topologies are 1..MaxTopology
MaxTopology == 2
\* the objects of a topology are at the addresses 1..MaxObject
MaxObject == 2
\* the bytes of a string are 1..MaxChar
MaxChar == 2
\* a string holds 0..MaxStrLen bytes
MaxStrLen == 1

----------------------------------------------------------------------------
(* Option<T> *)

None == {}
Some(x) == {x}
unwrap(o) == CHOOSE x \in o : TRUE

----------------------------------------------------------------------------
(* errno values (libc, with their values on Linux) *)

ENOSYS == 38
EXDEV == 18
EINVAL == 22
ENOMEM == 12

Errnos == {ENOSYS, EXDEV, EINVAL, ENOMEM} \cup (1..MaxOtherErrno)

----------------------------------------------------------------------------
(* CpuBindingFlags *)

ASSUME_SINGLE_THREAD == {31}
THREAD == {1}
PROCESS == {0}
STRICT == {2}
NO_MEMORY_BINDING == {3}

CpuBindingFlags ==
    SUBSET (ASSUME_SINGLE_THREAD \cup THREAD \cup PROCESS \cup STRICT \cup NO_MEMORY_BINDING)

\* bitflags operations
contains(self, other) == other \subseteq self
intersects(self, other) == self \cap other # {}
remove(self, other) == self \ other

\* The u32 of a flag set. TLC's integers stop below 2^31, so a u32 is kept as
\* its bit 31 (hi) and the value of its bits 0..30 (lo): the value is hi * 2^31 + lo.
RECURSIVE low_bits(_)
low_bits(self) ==
    IF self = {} THEN 0
    ELSE LET b == CHOOSE x \in self : TRUE
         IN 2^b + low_bits(self \ {b})

bits(self) ==
    [hi |-> IF 31 \in self THEN 1 ELSE 0, lo |-> low_bits(self \ {31})]

\* i32::try_from(u32): the value when it is at most i32::MAX, else an error
i32_try_from(u) == IF u.hi = 0 THEN Some(u.lo) ELSE None

count_ones(self) == Cardinality(self)

\* bool as u32
as_u32(b) == IF b THEN 1 ELSE 0

CpuBoundObject == {"ProcessOrThread", "Thread", "ThisProgram"}
CpuBindingOperation == {"GetBinding", "SetBinding", "GetLastLocation"}

----------------------------------------------------------------------------
(* CpuBindingFlags::validate *)

\* THREAD can only be specified on process binding functions on Linux
is_linux_thread_special_case(self, target) ==
    contains(self, THREAD) /\ target = "ProcessOrThread"

\* cfg!(not(target_os = "linux"))
not_linux == target_os # "linux"

\* Mutant: the platform is not consulted, the special case is let through everywhere
special_case_rejected_nowhere(self, target) == FALSE

\* the early return of the special case on the other platforms
special_case_rejected(self, target) ==
    is_linux_thread_special_case(self, target) /\ not_linux

num_target_flags(self) ==
    count_ones(self \cap (PROCESS \cup THREAD \cup ASSUME_SINGLE_THREAD))

\* Mutant: a request on the active process may also carry no target flag
target_flags_rejected_above_one(self, target) ==
    /\ num_target_flags(self) > as_u32(target = "ThisProgram")
    /\ ~(num_target_flags(self) = 1 /\ is_linux_thread_special_case(self, target))

\* Mutant: the special case excuses any number of target flags
target_flags_rejected_any_special(self, target) ==
    /\ num_target_flags(self) # as_u32(target = "ThisProgram")
    /\ ~is_linux_thread_special_case(self, target)

\* Mutant: target flags are only counted for requests on the active process
target_flags_rejected_this_program_only(self, target) ==
    /\ target = "ThisProgram"
    /\ num_target_flags(self) # 1

\* exactly one target flag when targeting the active process, none otherwise,
\* except for the special case
target_flags_rejected(self, target) ==
    /\ num_target_flags(self) # as_u32(target = "ThisProgram")
    /\ ~(num_target_flags(self) = 1 /\ is_linux_thread_special_case(self, target))

\* Mutant: STRICT is refused for GetBinding whatever the target
operation_rejected_strict_everywhere(self, target, operation) ==
    CASE operation = "GetLastLocation" ->
            intersects(self, STRICT \cup NO_MEMORY_BINDING)
      [] operation = "SetBinding" -> FALSE
      [] operation = "GetBinding" ->
            contains(self, STRICT) \/ contains(self, NO_MEMORY_BINDING)

\* Mutant: GetLastLocation lets NO_MEMORY_BINDING through
operation_rejected_location_lenient(self, target, operation) ==
    CASE operation = "GetLastLocation" -> intersects(self, STRICT)
      [] operation = "SetBinding" -> FALSE
      [] operation = "GetBinding" ->
            \/ (contains(self, STRICT) /\ target = "Thread")
            \/ contains(self, NO_MEMORY_BINDING)

\* operation-specific considerations
operation_rejected(self, target, operation) ==
    CASE operation = "GetLastLocation" ->
            intersects(self, STRICT \cup NO_MEMORY_BINDING)
      [] operation = "SetBinding" -> FALSE
      [] operation = "GetBinding" ->
            \/ (contains(self, STRICT) /\ target = "Thread")
            \/ contains(self, NO_MEMORY_BINDING)

\* Mutant: the virtual flag is left in place
cleared_nothing(self) == self

\* Mutant: every target flag is cleared along with the virtual one
cleared_all_target_flags(self) ==
    remove(self, ASSUME_SINGLE_THREAD \cup THREAD \cup PROCESS)

\* clear the virtual ASSUME_SINGLE_THREAD flag
cleared(self) == remove(self, ASSUME_SINGLE_THREAD)

\* Mutant: the accepted flags are returned as they were passed
validate_returning_self(self, target, operation) ==
    IF special_case_rejected(self, target) THEN None
    ELSE IF target_flags_rejected(self, target) THEN None
    ELSE IF operation_rejected(self, target, operation) THEN None
    ELSE Some(self)

validate(self, target, operation) ==
    IF special_case_rejected(self, target) THEN None
    ELSE IF target_flags_rejected(self, target) THEN None
    ELSE IF operation_rejected(self, target, operation) THEN None
    ELSE Some(cleared(self))

----------------------------------------------------------------------------
(* The native library and the OS, as seen from one native call *)

CpuSets == SUBSET (0..MaxCpu)
ProcessIds == 1..MaxPid
NoId == 0

\* What one native call answers: its integer result, the errno it leaves
\* (read only after a failure) and the bitmap it leaves in an output buffer.
OsResponsesWriting(outs) ==
    [result : 0..MaxResult, errno : {None}, out : outs]
        \cup [result : (0 - MaxFailure)..(0 - 1),
              errno : {None} \cup {Some(e) : e \in Errnos},
              out : outs]

OsResponses == OsResponsesWriting(CpuSets)

\* The closure given to call_hwloc by bind_cpu_impl and get_cpuset: the native
\* function, the pid or tid it captures, the CPU set it reads (None when it is
\* given a buffer to fill instead) and the flags
Ffi(api, id, set, flags) == [api |-> api, id |-> id, set |-> set, flags |-> flags]

\* One invocation of the native function, as logged in `native`
Invocation(ffi, os) ==
    [api |-> ffi.api, id |-> ffi.id, set |-> ffi.set, flags |-> unwrap(i32_try_from(bits(ffi.flags))),
     result |-> os.result, errno |-> os.errno,
     out |-> IF ffi.set = None THEN os.out ELSE {}]

Panic(msg) == [kind |-> "panic", msg |-> msg]

\* The body of the closure: the conversion of the flag bits to a c_int, then
\* the one native function the entry point wraps
run_ffi(ffi, os) ==
    IF i32_try_from(bits(ffi.flags)) = None
    THEN [panicked |-> TRUE, native |-> <<>>, result |-> 0, errno |-> None]
    ELSE [panicked |-> FALSE, native |-> <<Invocation(ffi, os)>>,
          result |-> os.result, errno |-> os.errno]

\* errors::call_hwloc_int_normal: runs the closure once; a result >= 0 is Ok,
\* a negative one is a RawHwlocError carrying the errno
call_hwloc_int_normal(api, ffi, os) ==
    LET c == run_ffi(ffi, os) IN
    [res |-> IF c.panicked THEN Panic("Unexpected high order bit in flags")
             ELSE IF c.result >= 0 THEN [kind |-> "Ok", positive |-> c.result]
             ELSE [kind |-> "Err", raw_err |-> [api |-> api, errno |-> c.errno]],
     native |-> c.native]

\* Mutant: every failure that carries an errno is reported as BadObject
translate_any_errno_bad_object(res, object, cpuset) ==
    IF res.kind = "panic" THEN res
    ELSE IF res.kind = "Ok" THEN [kind |-> "Ok"]
    ELSE IF res.raw_err.errno = None
    THEN [kind |-> "Err", hybrid |-> "Hwloc", raw_err |-> res.raw_err]
    ELSE [kind |-> "Err", hybrid |-> "Rust",
          err |-> [variant |-> "BadObject", object |-> object]]

\* the match of call_hwloc on the outcome of the native call
translate(res, object, cpuset) ==
    IF res.kind = "panic" THEN res
    ELSE IF res.kind = "Ok" THEN [kind |-> "Ok"]
    ELSE IF res.raw_err.errno = None
    THEN [kind |-> "Err", hybrid |-> "Hwloc", raw_err |-> res.raw_err]
    ELSE LET errno == unwrap(res.raw_err.errno) IN
         IF errno = ENOSYS
         THEN [kind |-> "Err", hybrid |-> "Rust",
               err |-> [variant |-> "BadObject", object |-> object]]
         ELSE IF errno = EXDEV
         THEN IF cpuset = None
              THEN Panic("This error should only be observed on commands that bind to CPUs")
              ELSE [kind |-> "Err", hybrid |-> "Rust",
                    err |-> [variant |-> "BadCpuSet", object |-> object,
                             cpuset |-> unwrap(cpuset)]]
         ELSE [kind |-> "Err", hybrid |-> "Hwloc", raw_err |-> res.raw_err]

\* Mutant: a failed native call is tried a second time
call_hwloc_with_retry(api, object, cpuset, ffi, os) ==
    LET r1 == call_hwloc_int_normal(api, ffi, os)
        r2 == call_hwloc_int_normal(api, ffi, os)
    IN IF r1.res.kind = "Err"
       THEN [ret |-> translate(r2.res, object, cpuset), native |-> r1.native \o r2.native]
       ELSE [ret |-> translate(r1.res, object, cpuset), native |-> r1.native]

call_hwloc(api, object, cpuset, ffi, os) ==
    LET r == call_hwloc_int_normal(api, ffi, os)
    IN [ret |-> translate(r.res, object, cpuset), native |-> r.native]

\* Mutant: the error carries the flags without ASSUME_SINGLE_THREAD
BadFlags_cleared(flags) ==
    [kind |-> "Err", hybrid |-> "Rust",
     err |-> [variant |-> "BadFlags", flags |-> cleared(flags)]]

\* CpuBindingError::from(flags).into()
BadFlags(flags) ==
    [kind |-> "Err", hybrid |-> "Rust", err |-> [variant |-> "BadFlags", flags |-> flags]]

\* Mutant: the native function is called before the flags are validated
bind_cpu_impl_binding_first(set, flags, target, api, id, os) ==
    LET v == validate(flags, target, "SetBinding")
        r == call_hwloc(api, target, Some(set),
                        Ffi(api, id, Some(set), flags \ ASSUME_SINGLE_THREAD), os)
    IN IF v = None
       THEN [ret |-> BadFlags(flags), validated |-> v, native |-> r.native,
             hwloc_ret |-> None, cpusets |-> 0]
       ELSE [ret |-> r.ret, validated |-> v, native |-> r.native,
             hwloc_ret |-> Some(r.ret), cpusets |-> 0]

\* Binding for set_cpubind style functions
bind_cpu_impl(set, flags, target, api, id, os) ==
    LET v == validate(flags, target, "SetBinding") IN
    IF v = None
    THEN [ret |-> BadFlags(flags), validated |-> v, native |-> <<>>,
          hwloc_ret |-> None, cpusets |-> 0]
    ELSE LET r == call_hwloc(api, target, Some(set), Ffi(api, id, Some(set), unwrap(v)), os)
         IN [ret |-> r.ret, validated |-> v, native |-> r.native,
             hwloc_ret |-> Some(r.ret), cpusets |-> 0]

\* Mutant: the result CpuSet is constructed before the flags are validated
get_cpuset_allocating_first(flags, target, operation, api, id, os) ==
    LET v == validate(flags, target, operation) IN
    IF v = None
    THEN [ret |-> BadFlags(flags), validated |-> v, native |-> <<>>,
          hwloc_ret |-> None, cpusets |-> 1]
    ELSE LET r == call_hwloc(api, target, None, Ffi(api, id, None, unwrap(v)), os)
         IN [ret |-> IF r.ret.kind = "Ok"
                     THEN [kind |-> "Ok", cpuset |-> r.native[Len(r.native)].out]
                     ELSE r.ret,
             validated |-> v,
             native |-> r.native,
             hwloc_ret |-> Some(r.ret),
             cpusets |-> 1]

\* Mutant: the result CpuSet is handed to call_hwloc as the requested set
get_cpuset_passing_its_cpuset(flags, target, operation, api, id, os) ==
    LET v == validate(flags, target, operation) IN
    IF v = None
    THEN [ret |-> BadFlags(flags), validated |-> v, native |-> <<>>,
          hwloc_ret |-> None, cpusets |-> 0]
    ELSE LET r == call_hwloc(api, target, Some({}), Ffi(api, id, None, unwrap(v)), os)
         IN [ret |-> IF r.ret.kind = "Ok"
                     THEN [kind |-> "Ok",
                           cpuset |-> r.native[Len(r.native)].out]
                     ELSE r.ret,
             validated |-> v,
             native |-> r.native,
             hwloc_ret |-> Some(r.ret),
             cpusets |-> 1]

\* Binding for all functions that get CPU bindings
get_cpuset(flags, target, operation, api, id, os) ==
    LET v == validate(flags, target, operation) IN
    IF v = None
    THEN [ret |-> BadFlags(flags), validated |-> v, native |-> <<>>,
          hwloc_ret |-> None, cpusets |-> 0]
    ELSE LET r == call_hwloc(api, target, None, Ffi(api, id, None, unwrap(v)), os)
         IN [ret |-> IF r.ret.kind = "Ok"
                     THEN [kind |-> "Ok",
                           cpuset |-> r.native[Len(r.native)].out]
                     ELSE r.ret,
             validated |-> v,
             native |-> r.native,
             hwloc_ret |-> Some(r.ret),
             cpusets |-> 1]

cpu_binding_impl(flags, target, api, id, os) ==
    get_cpuset(flags, target, "GetBinding", api, id, os)

last_cpu_location_impl(flags, target, api, id, os) ==
    get_cpuset(flags, target, "GetLastLocation", api, id, os)

\* the match of bind_cpu on the result of bind_cpu_impl
bind_cpu_result(res) ==
    IF res.kind = "Err" /\ res.hybrid = "Rust" THEN [kind |-> "Err", err |-> res.err]
    ELSE IF res.kind = "Err" /\ res.hybrid = "Hwloc" THEN Panic("Unexpected hwloc error")
    ELSE res

----------------------------------------------------------------------------
(* MemoryBindingFlags *)

MEMBIND_PROCESS == {0}
MEMBIND_THREAD == {1}
MEMBIND_STRICT == {2}
MEMBIND_MIGRATE == {3}
MEMBIND_NO_CPU_BINDING == {4}
MEMBIND_BY_NODE_SET == {5}

MemoryBindingFlags ==
    SUBSET (MEMBIND_PROCESS \cup MEMBIND_THREAD \cup MEMBIND_STRICT
                \cup MEMBIND_MIGRATE \cup MEMBIND_NO_CPU_BINDING \cup MEMBIND_BY_NODE_SET)

MemoryBindingTarget == {"Process", "Area", "None"}
MemoryBindingOperation == {"GetBinding", "Bind", "Unbind", "Allocate", "GetLastLocation"}

\* Mutant: the incompatible combination is not looked for
process_and_thread_unchecked(self) == FALSE

\* intrinsically incompatible flag combination
process_and_thread(self) == contains(self, MEMBIND_PROCESS \cup MEMBIND_THREAD)

\* Mutant: target Process refuses PROCESS as well as THREAD
good_for_target_process_refused(self, target) ==
    CASE target = "Area" -> ~intersects(self, MEMBIND_PROCESS \cup MEMBIND_THREAD)
      [] target = "Process" -> ~intersects(self, MEMBIND_PROCESS \cup MEMBIND_THREAD)
      [] target = "None" -> TRUE

\* support for PROCESS and THREAD
good_for_target(self, target) ==
    CASE target = "Area" -> ~intersects(self, MEMBIND_PROCESS \cup MEMBIND_THREAD)
      [] target = "Process" -> ~contains(self, MEMBIND_THREAD)
      [] target = "None" -> TRUE

\* Mutant: Unbind only looks at STRICT
good_for_operation_unbind_migrate(self, target, operation) ==
    CASE operation = "GetLastLocation" ->
            ~intersects(self, MEMBIND_STRICT \cup MEMBIND_MIGRATE \cup MEMBIND_NO_CPU_BINDING)
      [] operation = "GetBinding" ->
            IF intersects(self, MEMBIND_MIGRATE \cup MEMBIND_NO_CPU_BINDING) THEN FALSE
            ELSE IF target \in {"Area", "Process"} THEN TRUE
            ELSE ~contains(self, MEMBIND_STRICT) \/ contains(self, MEMBIND_PROCESS)
      [] operation = "Unbind" -> ~intersects(self, MEMBIND_STRICT)
      [] operation = "Allocate" -> ~contains(self, MEMBIND_MIGRATE)
      [] operation = "Bind" -> TRUE

\* support for STRICT, MIGRATE and NO_CPU_BINDING
good_for_operation(self, target, operation) ==
    CASE operation = "GetLastLocation" ->
            ~intersects(self, MEMBIND_STRICT \cup MEMBIND_MIGRATE \cup MEMBIND_NO_CPU_BINDING)
      [] operation = "GetBinding" ->
            IF intersects(self, MEMBIND_MIGRATE \cup MEMBIND_NO_CPU_BINDING) THEN FALSE
            ELSE IF target \in {"Area", "Process"} THEN TRUE
            ELSE ~contains(self, MEMBIND_STRICT) \/ contains(self, MEMBIND_PROCESS)
      [] operation = "Unbind" -> ~intersects(self, MEMBIND_STRICT \cup MEMBIND_MIGRATE)
      [] operation = "Allocate" -> ~contains(self, MEMBIND_MIGRATE)
      [] operation = "Bind" -> TRUE

is_valid(self, target, operation) ==
    IF process_and_thread(self) THEN FALSE
    ELSE good_for_target(self, target) /\ good_for_operation(self, target, operation)

----------------------------------------------------------------------------
(* Result translation of the memory binding functions *)

\* errno() always yields a number; 0 is the value before any error
NoErrno == 0
ErrnoValues == {NoErrno} \cup Errnos

\* the c_int a native memory binding function returns
NativeResults == (0 - MaxFailure)..MaxResult

\* Mutant: EXDEV and ENOMEM change places
from_errno_swapped(errno) ==
    IF errno = ENOSYS THEN [variant |-> "Unsupported"]
    ELSE IF errno = ENOMEM THEN [variant |-> "BadSet"]
    ELSE IF errno = EXDEV THEN [variant |-> "AllocationFailed"]
    ELSE [variant |-> "UnexpectedErrno", errno |-> errno]

\* MemoryBindingSetupError::from_errno, errno being what errno() reads
from_errno(errno) ==
    IF errno = ENOSYS THEN [variant |-> "Unsupported"]
    ELSE IF errno = EXDEV THEN [variant |-> "BadSet"]
    ELSE IF errno = ENOMEM THEN [variant |-> "AllocationFailed"]
    ELSE [variant |-> "UnexpectedErrno", errno |-> errno]

setup_result(result, errno) ==
    IF result >= 0 THEN [kind |-> "Ok"]
    ELSE IF result = -1 THEN [kind |-> "Err", err |-> from_errno(errno)]
    ELSE [kind |-> "Err",
          err |-> [variant |-> "UnexpectedResult", result |-> result, errno |-> errno]]

\* Mutant: every negative result is read through errno
query_result_lazy_any_negative(result, errno, ok) ==
    IF result >= 0 THEN [kind |-> "Ok", value |-> ok, ok_calls |-> 1]
    ELSE [kind |-> "Err", ok_calls |-> 0,
          err |-> IF errno = EXDEV THEN [variant |-> "MixedResults"]
                  ELSE IF errno = EINVAL THEN [variant |-> "InvalidRequest"]
                  ELSE [variant |-> "UnexpectedErrno", errno |-> errno]]

\* Mutant: the closure is evaluated before the result is looked at
query_result_eager(result, errno, ok) ==
    IF result >= 0 THEN [kind |-> "Ok", value |-> ok, ok_calls |-> 1]
    ELSE IF result = -1
    THEN [kind |-> "Err", ok_calls |-> 1,
          err |-> IF errno = EXDEV THEN [variant |-> "MixedResults"]
                  ELSE IF errno = EINVAL THEN [variant |-> "InvalidRequest"]
                  ELSE [variant |-> "UnexpectedErrno", errno |-> errno]]
    ELSE [kind |-> "Err", ok_calls |-> 1,
          err |-> [variant |-> "UnexpectedResult", result |-> result, errno |-> errno]]

\* ok is the value the closure yields; ok_calls counts its evaluations
query_result_lazy(result, errno, ok) ==
    IF result >= 0 THEN [kind |-> "Ok", value |-> ok, ok_calls |-> 1]
    ELSE IF result = -1
    THEN [kind |-> "Err", ok_calls |-> 0,
          err |-> IF errno = EXDEV THEN [variant |-> "MixedResults"]
                  ELSE IF errno = EINVAL THEN [variant |-> "InvalidRequest"]
                  ELSE [variant |-> "UnexpectedErrno", errno |-> errno]]
    ELSE [kind |-> "Err", ok_calls |-> 0,
          err |-> [variant |-> "UnexpectedResult", result |-> result, errno |-> errno]]

SetupOperations == {"Bind", "Unbind", "Allocate"}
QueryOperations == {"GetBinding", "GetLastLocation"}

NoRequest == [kind |-> "none"]
NoResult == [kind |-> "none"]

Request(kind, operation, target, flags, result, errno) ==
    [kind |-> kind, operation |-> operation, target |-> target, flags |-> flags,
     result |-> result, errno |-> errno]

----------------------------------------------------------------------------
(* The OS-level affinity the native functions act on *)

\* before any bind, a process or thread may run on every CPU
InitialAffinity == 0..MaxCpu

ThisProgramEntity == <<"ThisProgram", NoId>>

\* what a CPU binding call can address: the calling program, a process or
\* thread by pid, a thread by tid
Entities ==
    {ThisProgramEntity} \cup ({"ProcessOrThread", "Thread"} \X ProcessIds)

\* one entity of each kind: the entry points treat all pids and tids alike
ObservedEntities ==
    {ThisProgramEntity} \cup ({"ProcessOrThread", "Thread"} \X {MaxPid})

\* the process or thread a native invocation addresses
addressed(n) ==
    IF n.api \in {"hwloc_set_cpubind", "hwloc_get_cpubind", "hwloc_get_last_cpu_location"}
    THEN ThisProgramEntity
    ELSE IF n.api \in {"hwloc_set_thread_cpubind", "hwloc_get_thread_cpubind"}
    THEN <<"Thread", n.id>>
    ELSE <<"ProcessOrThread", n.id>>

\* The affinity of entity after the native invocations of log, in order: a
\* native set function that succeeds installs the set it was given, one that
\* fails installs nothing, and the native get functions install nothing
RECURSIVE os_effect(_, _, _)
os_effect(aff, entity, log) ==
    IF log = <<>> THEN aff
    ELSE LET n == Head(log) IN
         os_effect(IF n.set # None /\ n.result >= 0 /\ addressed(n) = entity
                   THEN unwrap(n.set)
                   ELSE aff,
                   entity, Tail(log))

NoCall == [entry |-> "none"]

Call(entry, flags, target, operation, set, id) ==
    [entry |-> entry, flags |-> flags, target |-> target, operation |-> operation,
     set |-> set, id |-> id]

\* the target each entry point addresses
target_of(entry) ==
    IF entry \in {"bind_cpu", "cpu_binding", "last_cpu_location"} THEN "ThisProgram"
    ELSE IF entry \in {"bind_thread_cpu", "thread_cpu_binding"} THEN "Thread"
    ELSE "ProcessOrThread"

\* The eight entry points, by name: the call, the outcome of its
\* implementation and what the caller receives
entry_point(entry, set, flags, id, os) ==
    LET target == target_of(entry)
        bind(api) ==
            LET res == bind_cpu_impl(set, flags, target, api, id, os)
            IN [call |-> Call(entry, flags, target, "SetBinding", Some(set), id),
                outcome |-> res,
                ret |-> IF entry = "bind_cpu" THEN bind_cpu_result(res.ret) ELSE res.ret]
        binding(api) ==
            LET res == cpu_binding_impl(flags, target, api, id, os)
            IN [call |-> Call(entry, flags, target, "GetBinding", None, id),
                outcome |-> res, ret |-> res.ret]
        location(api) ==
            LET res == last_cpu_location_impl(flags, target, api, id, os)
            IN [call |-> Call(entry, flags, target, "GetLastLocation", None, id),
                outcome |-> res, ret |-> res.ret]
    IN CASE entry = "bind_cpu" -> bind("hwloc_set_cpubind")
         [] entry = "cpu_binding" -> binding("hwloc_get_cpubind")
         [] entry = "bind_process_cpu" -> bind("hwloc_set_proc_cpubind")
         [] entry = "process_cpu_binding" -> binding("hwloc_get_proc_cpubind")
         [] entry = "bind_thread_cpu" -> bind("hwloc_set_thread_cpubind")
         [] entry = "thread_cpu_binding" -> binding("hwloc_get_thread_cpubind")
         [] entry = "last_cpu_location" -> location("hwloc_get_last_cpu_location")
         [] entry = "last_process_cpu_location" ->
                location("hwloc_get_proc_last_cpu_location")

BindEntryPoints == {"bind_cpu", "bind_process_cpu", "bind_thread_cpu"}
QueryEntryPoints ==
    {"cpu_binding", "process_cpu_binding", "thread_cpu_binding",
     "last_cpu_location", "last_process_cpu_location"}
EntryPoints == BindEntryPoints \cup QueryEntryPoints

----------------------------------------------------------------------------
(* Bytes: memory allocated through hwloc *)

\* the null pointer; the other addresses are 1..MaxAddr
NULL == 0
Addresses == NULL..MaxAddr
Lengths == 0..MaxLen
Topologies == 1..MaxTopology

\* what hwloc_free can return
FreeResults == (0 - MaxFailure)..MaxResult

\* std::ptr::slice_from_raw_parts_mut: a slice pointer is an address and a length
slice_from_raw_parts_mut(base, len) == [ptr |-> base, len |-> len]

\* NonNull::new
NonNull_new(data) == IF data.ptr = NULL THEN None ELSE Some(data)

\* Mutant: an allocation of no bytes is refused like a null pointer
wrap_refusing_empty(topology, base, len) ==
    IF base = NULL \/ len = 0 THEN None
    ELSE LET data == NonNull_new(slice_from_raw_parts_mut(base, len))
         IN IF data = None THEN None
            ELSE Some([topology |-> topology, data |-> unwrap(data)])

\* Bytes::wrap
wrap(topology, base, len) ==
    IF base = NULL THEN None
    ELSE LET data == NonNull_new(slice_from_raw_parts_mut(base, len))
         IN IF data = None THEN None
            ELSE Some([topology |-> topology, data |-> unwrap(data)])

\* AsRef / AsMut (and Borrow, BorrowMut, Deref, DerefMut through them): the
\* slice the caller gets to read or write
as_ref(self) == [ptr |-> self.data.ptr, len |-> self.data.len, mutable |-> FALSE]
as_mut(self) == [ptr |-> self.data.ptr, len |-> self.data.len, mutable |-> TRUE]

\* Mutant: the allocation is freed a second time when the first free fails
hwloc_free_again(self, result) ==
    LET f == [topology |-> self.topology, addr |-> self.data.ptr, len |-> self.data.len,
              result |-> result]
    IN IF result = 0 THEN <<f>> ELSE <<f, f>>

\* Drop: the one hwloc_free(self.topology.as_ptr(), addr, len), result being
\* what the native function returns
hwloc_free(self, result) ==
    <<[topology |-> self.topology, addr |-> self.data.ptr, len |-> self.data.len,
       result |-> result]>>

\* Mutant: only a negative result fails the assertion
assert_not_negative(result) ==
    IF result >= 0 THEN "Released" ELSE "panicked"

\* Drop: assert_eq!(result, 0, ...)
assert_eq_zero(result) ==
    IF result = 0 THEN "Released" ELSE "panicked"

NoWrap == [topology |-> 0, base |-> NULL, len |-> 0]

----------------------------------------------------------------------------
(* TopologyObject: the linked lists of memory, I/O and Misc children *)

\* the objects of a topology are at the addresses 1..MaxObject
Objects == 1..MaxObject
ObjectPointers == {NULL} \cup Objects

\* The list that starts at first and follows next_sibling (sibling[o] is the
\* next_sibling field of the object at o), cut after fuel objects
RECURSIVE linked_list(_, _, _)
linked_list(first, sibling, fuel) ==
    IF first = NULL \/ fuel = 0 THEN <<>>
    ELSE <<first>> \o linked_list(sibling[first], sibling, fuel - 1)

Range(s) == {s[i] : i \in 1..Len(s)}

\* hwloc keeps each list of children finite and the three lists of an object
\* apart
well_formed(obj, sibling) ==
    LET memory == linked_list(obj.memory_first_child, sibling, MaxObject + 1)
        io == linked_list(obj.io_first_child, sibling, MaxObject + 1)
        misc == linked_list(obj.misc_first_child, sibling, MaxObject + 1)
    IN /\ Len(memory) <= MaxObject /\ Len(io) <= MaxObject /\ Len(misc) <= MaxObject
       /\ Cardinality(Range(memory) \cup Range(io) \cup Range(misc))
              = Len(memory) + Len(io) + Len(misc)

\* What a build may make of `&*current` on a null pointer, which is undefined:
\* the read of next_sibling through it faults, or the compiler takes current
\* for non-null and the test current.is_null() for false
NullDerefOutcomes == {"fault", "taken_for_non_null"}

\* One call of the closure given to std::iter::from_fn:
\*   let child = (current.is_null()).then_some(unsafe { &*current })?;
\*   current = child.next_sibling;
\*   Some(child)
\* then_some takes its argument by value, so &*current is made whatever
\* current is, and Some comes out when current is null
from_fn_next(current, sibling, ub) ==
    IF current = NULL
    THEN IF ub = "fault"
         THEN [item |-> None, current |-> current, null_deref |-> TRUE, fault |-> TRUE]
         ELSE [item |-> None, current |-> current, null_deref |-> TRUE, fault |-> FALSE]
    ELSE [item |-> None, current |-> current, null_deref |-> FALSE, fault |-> FALSE]

\* The iterator run to its end: what it yielded, whether a null pointer was
\* dereferenced on the way and whether the program faulted
RECURSIVE iterate(_, _, _, _)
iterate(current, sibling, ub, fuel) ==
    LET n == from_fn_next(current, sibling, ub) IN
    IF n.item = None \/ fuel = 0
    THEN [yielded |-> <<>>, null_deref |-> n.null_deref, fault |-> n.fault]
    ELSE LET rest == iterate(n.current, sibling, ub, fuel - 1)
         IN [yielded |-> <<unwrap(n.item)>> \o rest.yielded,
             null_deref |-> n.null_deref \/ rest.null_deref,
             fault |-> rest.fault]

\* TopologyObject::iter_linked_children(start), consumed by its caller
iter_linked_children(start, sibling, ub) ==
    iterate(start, sibling, ub, MaxObject + 1)

memory_children_start(obj) == obj.memory_first_child
io_children_start(obj) == obj.io_first_child
\* misc_children passes &self.io_first_child
misc_children_start(obj) == obj.io_first_child

NoChildrenCall == [method |-> "none"]

ChildrenCall(method, obj, sibling, start, it) ==
    [method |-> method, obj |-> obj, sibling |-> sibling, start |-> start,
     yielded |-> it.yielded, null_deref |-> it.null_deref, fault |-> it.fault]

----------------------------------------------------------------------------
(* TextualInfo: a (name, value) pair of C strings *)

\* the bytes of a string are 1..MaxChar; 0 is the terminating NUL
NUL == 0
Chars == 1..MaxChar

\* the strings of at most n bytes, none of them NUL (what a LibcString holds)
RECURSIVE strings_up_to(_)
strings_up_to(n) ==
    IF n = 0 THEN {<<>>}
    ELSE LET shorter == strings_up_to(n - 1)
         IN shorter \cup {Append(s, c) : s \in shorter, c \in Chars}

LibcStrings == strings_up_to(MaxStrLen)

\* the buffer of a LibcString: its bytes and the terminating NUL
c_buffer(s) == Append(s, NUL)

\* the C string that starts at the beginning of a buffer: the bytes before
\* the first NUL
RECURSIVE c_str(_)
c_str(buffer) ==
    IF buffer = <<>> \/ Head(buffer) = NUL THEN <<>>
    ELSE <<Head(buffer)>> \o c_str(Tail(buffer))

\* ffi::deref_str: the CStr a pointer leads to in memory, None for null
deref_str(ptr, memory) ==
    IF ptr = NULL THEN None ELSE Some(c_str(memory[ptr]))

\* TextualInfo::borrow_raw: the hwloc_info_s holds the addresses of the buffers
borrow_raw(name_ptr, value_ptr) == [name |-> name_ptr, value |-> value_ptr]

\* TextualInfo::name / value, the expect being on a pointer that the type
\* invariant keeps non-null
name(self, memory) == unwrap(deref_str(self.name, memory))
value(self, memory) == unwrap(deref_str(self.value, memory))

\* Mutant: the raw pointers are compared, as a derived PartialEq would
eq_of_pointers(self, other, memory) ==
    self.name = other.name /\ self.value = other.value

\* impl PartialEq for TextualInfo
eq(self, other, memory) ==
    name(self, memory) = name(other, memory) /\ value(self, memory) = value(other, memory)

NoComparison == [compared |-> FALSE]

----------------------------------------------------------------------------
(* State machine *)

\* Nothing has been called yet and the OS holds the initial affinity
NoCallYet ==
    /\ target_os \in {"linux", "macos", "windows"}
    /\ pc = "idle"
    /\ call = NoCall
    /\ validated = None
    /\ native = <<>>
    /\ hwloc_ret = None
    /\ cpusets = 0
    /\ ret = [kind |-> "none"]
    /\ mem_call = [flags |-> {}, target |-> "None", operation |-> "Bind"]
    /\ mem_valid = TRUE
    /\ mem_request = NoRequest
    /\ mem_ret = NoResult
    /\ affinity = InitialAffinity
    /\ bound_ok = FALSE
    /\ wrapped = NoWrap
    /\ bytes = None
    /\ bytes_state = "unwrapped"
    /\ view = None
    /\ frees = <<>>
    /\ children = NoChildrenCall
    /\ info_eq = NoComparison

Init ==
    /\ NoCallYet
    /\ observed = ThisProgramEntity

\* An entry point runs to its return (or to its panic)
Completes(c, outcome, r) ==
    /\ pc' = "returned"
    /\ call' = c
    /\ validated' = outcome.validated
    /\ native' = outcome.native
    /\ hwloc_ret' = outcome.hwloc_ret
    /\ cpusets' = outcome.cpusets
    /\ ret' = r
    /\ UNCHANGED <<target_os, mem_vars, mem_result_vars, data_vars>>

\* The same, the OS-level affinity not being followed
Returns(c, outcome, r) ==
    /\ Completes(c, outcome, r)
    /\ UNCHANGED os_vars

bind_cpu ==
    /\ pc = "idle"
    /\ \E set \in CpuSets, flags \in CpuBindingFlags, os \in OsResponses :
           LET res == bind_cpu_impl(set, flags, "ThisProgram", "hwloc_set_cpubind", NoId, os)
           IN Returns(Call("bind_cpu", flags, "ThisProgram", "SetBinding", Some(set), NoId),
                      res, bind_cpu_result(res.ret))

cpu_binding ==
    /\ pc = "idle"
    /\ \E flags \in CpuBindingFlags, os \in OsResponses :
           LET res == cpu_binding_impl(flags, "ThisProgram", "hwloc_get_cpubind", NoId, os)
           IN Returns(Call("cpu_binding", flags, "ThisProgram", "GetBinding", None, NoId),
                      res, res.ret)

bind_process_cpu ==
    /\ pc = "idle"
    /\ \E pid \in ProcessIds, set \in CpuSets, flags \in CpuBindingFlags, os \in OsResponses :
           LET res == bind_cpu_impl(set, flags, "ProcessOrThread", "hwloc_set_proc_cpubind", pid, os)
           IN Returns(Call("bind_process_cpu", flags, "ProcessOrThread", "SetBinding", Some(set), pid),
                      res, res.ret)

process_cpu_binding ==
    /\ pc = "idle"
    /\ \E pid \in ProcessIds, flags \in CpuBindingFlags, os \in OsResponses :
           LET res == cpu_binding_impl(flags, "ProcessOrThread", "hwloc_get_proc_cpubind", pid, os)
           IN Returns(Call("process_cpu_binding", flags, "ProcessOrThread", "GetBinding", None, pid),
                      res, res.ret)

bind_thread_cpu ==
    /\ pc = "idle"
    /\ \E tid \in ProcessIds, set \in CpuSets, flags \in CpuBindingFlags, os \in OsResponses :
           LET res == bind_cpu_impl(set, flags, "Thread", "hwloc_set_thread_cpubind", tid, os)
           IN Returns(Call("bind_thread_cpu", flags, "Thread", "SetBinding", Some(set), tid),
                      res, res.ret)

thread_cpu_binding ==
    /\ pc = "idle"
    /\ \E tid \in ProcessIds, flags \in CpuBindingFlags, os \in OsResponses :
           LET res == cpu_binding_impl(flags, "Thread", "hwloc_get_thread_cpubind", tid, os)
           IN Returns(Call("thread_cpu_binding", flags, "Thread", "GetBinding", None, tid),
                      res, res.ret)

last_cpu_location ==
    /\ pc = "idle"
    /\ \E flags \in CpuBindingFlags, os \in OsResponses :
           LET res == last_cpu_location_impl(flags, "ThisProgram", "hwloc_get_last_cpu_location", NoId, os)
           IN Returns(Call("last_cpu_location", flags, "ThisProgram", "GetLastLocation", None, NoId),
                      res, res.ret)

last_process_cpu_location ==
    /\ pc = "idle"
    /\ \E pid \in ProcessIds, flags \in CpuBindingFlags, os \in OsResponses :
           LET res == last_cpu_location_impl(flags, "ProcessOrThread",
                                             "hwloc_get_proc_last_cpu_location", pid, os)
           IN Returns(Call("last_process_cpu_location", flags, "ProcessOrThread",
                           "GetLastLocation", None, pid),
                      res, res.ret)

\* The caller has taken the result and is ready for its next call
next_call ==
    /\ pc = "returned"
    /\ ret.kind # "panic"
    /\ pc' = "idle"
    /\ call' = NoCall
    /\ validated' = None
    /\ native' = <<>>
    /\ hwloc_ret' = None
    /\ cpusets' = 0
    /\ ret' = [kind |-> "none"]
    /\ UNCHANGED <<target_os, mem_vars, mem_result_vars, os_vars, data_vars>>

Next ==
    \/ bind_cpu
    \/ cpu_binding
    \/ bind_process_cpu
    \/ process_cpu_binding
    \/ bind_thread_cpu
    \/ thread_cpu_binding
    \/ last_cpu_location
    \/ last_process_cpu_location
    \/ next_call

Spec == Init /\ [][Next]_vars

\* The same calls with the OS followed: the affinity of one process or thread
\* is observed through any sequence of calls
AffinityInit ==
    /\ NoCallYet
    /\ observed \in ObservedEntities

\* An entry point is called and runs to its return (or to its panic); the
\* native function acts on the OS. A native query writes the affinity of the
\* entity it addresses (the initial one for an entity that is not followed).
call_on_os ==
    /\ pc = "idle"
    /\ \E entry \in EntryPoints, flags \in CpuBindingFlags :
       \E set \in (IF entry \in BindEntryPoints THEN CpuSets ELSE {{}}),
          id \in (IF target_of(entry) = "ThisProgram" THEN {NoId} ELSE ProcessIds) :
       \E os \in OsResponsesWriting({IF <<target_of(entry), id>> = observed
                                     THEN affinity ELSE InitialAffinity}) :
           LET e == entry_point(entry, set, flags, id, os)
           IN /\ Completes(e.call, e.outcome, e.ret)
              /\ affinity' = os_effect(affinity, observed, e.outcome.native)
              /\ bound_ok' = (bound_ok \/ (/\ entry \in BindEntryPoints
                                           /\ <<target_of(entry), id>> = observed
                                           /\ e.ret.kind = "Ok"))
              /\ UNCHANGED observed

AffinityNext ==
    \/ call_on_os
    \/ next_call

AffinitySpec == AffinityInit /\ [][AffinityNext]_vars

\* A caller inside the crate asks whether flags are valid for a memory binding request
is_valid_call ==
    \E flags \in MemoryBindingFlags, target \in MemoryBindingTarget,
       operation \in MemoryBindingOperation :
        /\ mem_call' = [flags |-> flags, target |-> target, operation |-> operation]
        /\ mem_valid' = is_valid(flags, target, operation)
        /\ UNCHANGED <<target_os, cpu_vars, mem_result_vars, os_vars, data_vars>>

MemNext == is_valid_call

MemSpec == Init /\ [][MemNext]_vars

\* A memory binding function that sets up a binding (bind, unbind, allocate):
\* its flags are valid for the request, the native function has returned
\* result and left errno, and setup_result translates them
memory_setup ==
    /\ mem_ret = NoResult
    /\ \E operation \in SetupOperations, target \in MemoryBindingTarget,
          flags \in MemoryBindingFlags, result \in NativeResults, errno \in ErrnoValues :
           /\ is_valid(flags, target, operation)
           /\ mem_request' = Request("setup", operation, target, flags, result, errno)
           /\ mem_ret' = setup_result(result, errno)
    /\ UNCHANGED <<target_os, cpu_vars, mem_vars, os_vars, data_vars>>

\* A memory binding function that queries (binding, last location): as above,
\* translated by query_result_lazy, whose closure yields the set that was read
memory_query ==
    /\ mem_ret = NoResult
    /\ \E operation \in QueryOperations, target \in MemoryBindingTarget,
          flags \in MemoryBindingFlags, result \in NativeResults, errno \in ErrnoValues,
          set \in CpuSets :
           /\ is_valid(flags, target, operation)
           /\ mem_request' = Request("query", operation, target, flags, result, errno)
           /\ mem_ret' = query_result_lazy(result, errno, set)
    /\ UNCHANGED <<target_os, cpu_vars, mem_vars, os_vars, data_vars>>

\* the caller, after the memory binding function returned
memory_next_call ==
    /\ mem_ret # NoResult
    /\ mem_request' = NoRequest
    /\ mem_ret' = NoResult
    /\ UNCHANGED <<target_os, cpu_vars, mem_vars, os_vars, data_vars>>

MemResultNext ==
    \/ memory_setup
    \/ memory_query
    \/ memory_next_call

MemResultSpec == Init /\ [][MemResultNext]_vars

\* The queries of both binding kinds, one call at a time
QueryNext ==
    \/ /\ mem_ret = NoResult
       /\ \/ cpu_binding
          \/ process_cpu_binding
          \/ thread_cpu_binding
          \/ last_cpu_location
          \/ last_process_cpu_location
          \/ next_call
    \/ /\ pc = "idle"
       /\ \/ memory_query
          \/ memory_next_call

QuerySpec == Init /\ [][QueryNext]_vars

\* A caller inside the crate wraps what the native allocator returned
wrap_call ==
    /\ bytes_state = "unwrapped"
    /\ \E topology \in Topologies, base \in Addresses, len \in Lengths :
           /\ wrapped' = [topology |-> topology, base |-> base, len |-> len]
           /\ bytes' = wrap(topology, base, len)
           /\ bytes_state' = IF wrap(topology, base, len) = None
                             THEN "refused" ELSE "Allocated"
    /\ UNCHANGED <<view, frees>>
    /\ UNCHANGED <<target_os, cpu_vars, mem_vars, mem_result_vars, os_vars, children, info_eq>>

\* The owner reads the bytes
as_ref_call ==
    /\ bytes_state = "Allocated"
    /\ view' = Some(as_ref(unwrap(bytes)))
    /\ UNCHANGED <<wrapped, bytes, bytes_state, frees>>
    /\ UNCHANGED <<target_os, cpu_vars, mem_vars, mem_result_vars, os_vars, children, info_eq>>

\* The owner writes the bytes
as_mut_call ==
    /\ bytes_state = "Allocated"
    /\ view' = Some(as_mut(unwrap(bytes)))
    /\ UNCHANGED <<wrapped, bytes, bytes_state, frees>>
    /\ UNCHANGED <<target_os, cpu_vars, mem_vars, mem_result_vars, os_vars, children, info_eq>>

\* The Bytes goes out of scope: drop runs, once, as the language has it
drop ==
    /\ bytes_state = "Allocated"
    /\ \E result \in FreeResults :
           /\ frees' = frees \o hwloc_free(unwrap(bytes), result)
           /\ bytes_state' = assert_eq_zero(result)
    /\ view' = None
    /\ UNCHANGED <<wrapped, bytes>>
    /\ UNCHANGED <<target_os, cpu_vars, mem_vars, mem_result_vars, os_vars, children, info_eq>>

BytesNext ==
    \/ wrap_call
    \/ as_ref_call
    \/ as_mut_call
    \/ drop

BytesSpec == Init /\ [][BytesNext]_vars

\* A caller walks one of the three lists of children of an object
children_of(method, start) ==
    /\ children = NoChildrenCall
    /\ \E obj \in [memory_first_child : ObjectPointers, io_first_child : ObjectPointers,
                   misc_first_child : ObjectPointers],
          sibling \in [Objects -> ObjectPointers], ub \in NullDerefOutcomes :
           /\ well_formed(obj, sibling)
           /\ LET first == IF start = "memory" THEN memory_children_start(obj)
                           ELSE IF start = "io" THEN io_children_start(obj)
                           ELSE misc_children_start(obj)
              IN children' = ChildrenCall(method, obj, sibling, first,
                                          iter_linked_children(first, sibling, ub))
    /\ UNCHANGED <<target_os, cpu_vars, mem_vars, mem_result_vars, os_vars, bytes_vars, info_eq>>

memory_children == children_of("memory_children", "memory")
io_children == children_of("io_children", "io")
misc_children == children_of("misc_children", "misc")

ObjectNext ==
    \/ memory_children
    \/ io_children
    \/ misc_children

ObjectSpec == Init /\ [][ObjectNext]_vars

\* Two TextualInfo are built over four strings, each in a buffer of its own,
\* and compared (tests::binary)
eq_call ==
    /\ info_eq = NoComparison
    /\ \E name1 \in LibcStrings, value1 \in LibcStrings,
          name2 \in LibcStrings, value2 \in LibcStrings :
           LET memory == <<c_buffer(name1), c_buffer(value1),
                           c_buffer(name2), c_buffer(value2)>>
               info1 == borrow_raw(1, 2)
               info2 == borrow_raw(3, 4)
           IN info_eq' = [compared |-> TRUE,
                          name1 |-> name1, value1 |-> value1,
                          name2 |-> name2, value2 |-> value2,
                          equal |-> eq(info1, info2, memory)]
    /\ UNCHANGED <<target_os, cpu_vars, mem_vars, mem_result_vars, os_vars, bytes_vars,
                   children>>

InfoNext == eq_call

InfoSpec == Init /\ [][InfoNext]_vars

\* Both validators, one call at a time
ValidatorNext ==
    \/ /\ mem_call = [flags |-> {}, target |-> "None", operation |-> "Bind"]
       /\ \/ bind_cpu
          \/ cpu_binding
          \/ bind_process_cpu
          \/ process_cpu_binding
          \/ bind_thread_cpu
          \/ thread_cpu_binding
          \/ last_cpu_location
          \/ last_process_cpu_location
          \/ next_call
    \/ /\ pc = "idle"
       /\ is_valid_call

ValidatorSpec == Init /\ [][ValidatorNext]_vars

----------------------------------------------------------------------------
(* Properties of the CPU binding entry points *)

Returned == pc = "returned"
Accepted == Returned /\ validated # None
Rejected == Returned /\ validated = None

\* the error variant a call returned, or the kind of its outcome
RetVariant ==
    IF ret.kind # "Err" THEN ret.kind
    ELSE IF "err" \in DOMAIN ret THEN ret.err.variant
    ELSE "Hwloc"

\* bit b of a non-negative integer
has_bit(n, b) == (n \div 2^b) % 2 = 1

\* the target selector flags of the request, by bit position
Selectors == call.flags \cap {31, 1, 0}

\* C1: when validate rejects the request of a CPU binding entry point, the call
\* returns BadFlags, makes no native call and constructs no output CpuSet.
C1_RejectionIsLocal ==
    Rejected => /\ RetVariant = "BadFlags"
                /\ native = <<>>
                /\ cpusets = 0

C1_Witness ==
    /\ Rejected
    /\ call.entry = "thread_cpu_binding"
    /\ call.flags = STRICT
    /\ RetVariant = "BadFlags"

\* C2: for every request validate accepts, the native function is invoked
\* exactly once during the call, whatever its result and errno are.
C2_ExactlyOneNativeCall ==
    Accepted => /\ Len(native) = 1
                /\ native[1].api =
                       CASE call.entry = "bind_cpu" -> "hwloc_set_cpubind"
                         [] call.entry = "cpu_binding" -> "hwloc_get_cpubind"
                         [] call.entry = "bind_process_cpu" -> "hwloc_set_proc_cpubind"
                         [] call.entry = "process_cpu_binding" -> "hwloc_get_proc_cpubind"
                         [] call.entry = "bind_thread_cpu" -> "hwloc_set_thread_cpubind"
                         [] call.entry = "thread_cpu_binding" -> "hwloc_get_thread_cpubind"
                         [] call.entry = "last_cpu_location" -> "hwloc_get_last_cpu_location"
                         [] call.entry = "last_process_cpu_location" ->
                                "hwloc_get_proc_last_cpu_location"

C2_Witness ==
    /\ Accepted
    /\ call.entry = "bind_process_cpu"
    /\ Len(native) = 1
    /\ native[1].result < 0
    /\ native[1].errno = Some(EINVAL)

\* C3: the flags validate returns never contain ASSUME_SINGLE_THREAD, so no
\* native call receives it (the conversion of the flag bits never fails on it);
\* ASSUME_SINGLE_THREAD alone on ThisProgram for SetBinding is accepted and
\* normalizes to the empty flag set.
C3_VirtualFlagNeverForwarded ==
    /\ Accepted => /\ ~intersects(unwrap(validated), ASSUME_SINGLE_THREAD)
                   /\ ret.kind # "panic" \/ ret.msg # "Unexpected high order bit in flags"
                   /\ \A i \in 1..Len(native) :
                          native[i].flags = low_bits(unwrap(validated))
    /\ (Returned /\ call.flags = ASSUME_SINGLE_THREAD /\ call.target = "ThisProgram"
            /\ call.operation = "SetBinding")
           => validated = Some({})

C3_Witness ==
    /\ Accepted
    /\ call.entry = "bind_cpu"
    /\ call.flags = ASSUME_SINGLE_THREAD
    /\ Len(native) = 1
    /\ native[1].flags = 0

\* C4: for every accepted request the normalized flags are the requested flags
\* with only ASSUME_SINGLE_THREAD removed, and these are the bits the native
\* call receives; {PROCESS, STRICT} on ThisProgram for SetBinding is accepted
\* and normalizes to exactly {PROCESS, STRICT}.
C4_OnlyVirtualFlagRemoved ==
    /\ Accepted =>
           /\ \A f \in {THREAD, PROCESS, STRICT, NO_MEMORY_BINDING} :
                  contains(unwrap(validated), f) <=> contains(call.flags, f)
           /\ unwrap(validated) = call.flags \ {31}
           /\ \A i \in 1..Len(native) :
                  \A b \in 0..30 : has_bit(native[i].flags, b) <=> b \in call.flags
    /\ (Returned /\ call.flags = PROCESS \cup STRICT /\ call.target = "ThisProgram"
            /\ call.operation = "SetBinding")
           => validated = Some(PROCESS \cup STRICT)

C4_Witness ==
    /\ Accepted
    /\ call.entry = "bind_cpu"
    /\ call.flags = PROCESS \cup STRICT
    /\ Len(native) = 1
    /\ native[1].flags = 5

\* C5 as stated: on ThisProgram, for every operation, validate accepts if and
\* only if exactly one of ASSUME_SINGLE_THREAD, THREAD, PROCESS is set.
C5_AcceptedIffOneSelector ==
    (Returned /\ call.target = "ThisProgram")
        => (Accepted <=> Cardinality(Selectors) = 1)

\* what the operation itself forbids, besides the target selector rules
OperationForbids ==
    CASE call.operation = "GetLastLocation" -> 2 \in call.flags \/ 3 \in call.flags
      [] call.operation = "GetBinding" ->
            3 \in call.flags \/ (2 \in call.flags /\ call.target = "Thread")
      [] call.operation = "SetBinding" -> FALSE

\* C5, amended: on ThisProgram, for every operation, validate rejects (and the
\* caller receives BadFlags) whenever the number of target selectors set is not
\* exactly one, and it accepts if and only if exactly one is set and the
\* operation does not forbid one of the other flags.
C5_OneSelectorAndOperationRule ==
    (Returned /\ call.target = "ThisProgram")
        => /\ Cardinality(Selectors) # 1 => (Rejected /\ RetVariant = "BadFlags")
           /\ Accepted <=> (Cardinality(Selectors) = 1 /\ ~OperationForbids)

C5_Witness ==
    /\ Rejected
    /\ call.entry = "bind_cpu"
    /\ call.flags = PROCESS \cup THREAD
    /\ RetVariant = "BadFlags"

\* C6: THREAD alone on ProcessOrThread for SetBinding is accepted on Linux and
\* rejected on every other platform, and any flag set containing THREAD on
\* ProcessOrThread is rejected on every other platform, for every operation.
C6_ThreadSpecialCaseOnLinuxOnly ==
    /\ (Returned /\ call.flags = THREAD /\ call.target = "ProcessOrThread"
            /\ call.operation = "SetBinding")
           => (Accepted <=> target_os = "linux")
    /\ (Returned /\ 1 \in call.flags /\ call.target = "ProcessOrThread"
            /\ target_os # "linux")
           => (Rejected /\ RetVariant = "BadFlags")

C6_Witness ==
    /\ Accepted
    /\ target_os = "linux"
    /\ call.entry = "bind_process_cpu"
    /\ call.flags = THREAD
    /\ Len(native) = 1
    /\ native[1].flags = 2

\* C7: on ProcessOrThread and Thread, every flag set with a target selector is
\* rejected, except THREAD as the only selector on ProcessOrThread on Linux.
C7_NoSelectorOnExplicitTargets ==
    (/\ Returned
     /\ call.target \in {"ProcessOrThread", "Thread"}
     /\ Selectors # {}
     /\ ~(call.target = "ProcessOrThread" /\ Selectors = {1} /\ target_os = "linux"))
        => (Rejected /\ RetVariant = "BadFlags")

C7_Witness ==
    /\ Rejected
    /\ target_os = "linux"
    /\ call.entry = "bind_process_cpu"
    /\ call.flags = THREAD \cup PROCESS
    /\ RetVariant = "BadFlags"

\* the request passes the target selector rules
PassesSelectorRules ==
    CASE call.target = "ThisProgram" -> Cardinality(Selectors) = 1
      [] call.target = "Thread" -> Selectors = {}
      [] call.target = "ProcessOrThread" ->
            Selectors = {} \/ (Selectors = {1} /\ target_os = "linux")

\* C8: among requests that pass the target selector rules, GetLastLocation is
\* rejected iff STRICT or NO_MEMORY_BINDING is set, GetBinding iff
\* NO_MEMORY_BINDING is set or STRICT is set on target Thread, SetBinding never;
\* so bind_cpu returns BadFlags exactly when the selector count is not one.
C8_OperationRules ==
    /\ (Returned /\ PassesSelectorRules) => (Rejected <=> OperationForbids)
    /\ (Returned /\ call.entry = "bind_cpu")
           => (RetVariant = "BadFlags" <=> Cardinality(Selectors) # 1)

C8_Witness ==
    /\ Accepted
    /\ call.entry = "process_cpu_binding"
    /\ call.flags = STRICT
    /\ Len(native) = 1

\* C9: the flags a native call receives never hold both THREAD and PROCESS, and
\* hold neither when the call addresses a thread by its id (target Thread).
C9_AtMostOneSelectorForwarded ==
    Returned =>
        \A i \in 1..Len(native) :
            /\ ~(has_bit(native[i].flags, 0) /\ has_bit(native[i].flags, 1))
            /\ call.target = "Thread"
                   => (~has_bit(native[i].flags, 0) /\ ~has_bit(native[i].flags, 1))

C9_Witness ==
    /\ Accepted
    /\ call.entry = "bind_thread_cpu"
    /\ call.flags = STRICT \cup NO_MEMORY_BINDING
    /\ Len(native) = 1
    /\ native[1].flags = 12

----------------------------------------------------------------------------
(* Properties of MemoryBindingFlags::is_valid *)

\* C10: is_valid is false for every flag set that holds both PROCESS and
\* THREAD, for every target and operation, whatever the other flags are.
C10_ProcessAndThreadExclusive ==
    ({0, 1} \subseteq mem_call.flags) => mem_valid = FALSE

C10_Witness ==
    /\ mem_call.flags = {0, 1, 5}
    /\ mem_call.target = "None"
    /\ mem_call.operation = "Bind"
    /\ mem_valid = FALSE

\* the flags of the request pass the PROCESS/THREAD exclusion and the target rules
MemPassesTargetRules ==
    /\ ~({0, 1} \subseteq mem_call.flags)
    /\ mem_call.target = "Area" => mem_call.flags \cap {0, 1} = {}
    /\ mem_call.target = "Process" => 1 \notin mem_call.flags

\* C11: for every operation, target Area makes is_valid false whenever PROCESS
\* or THREAD is set; target Process makes it false whenever THREAD is set, and
\* PROCESS without THREAD changes nothing there; on target None, THREAD without
\* PROCESS changes nothing and PROCESS without THREAD never turns a valid
\* request into an invalid one; for Bind, is_valid is true exactly when the
\* exclusion and the target rules hold.
C11_TargetCompatibility ==
    LET f == mem_call.flags
        t == mem_call.target
        o == mem_call.operation
    IN /\ (t = "Area" /\ f \cap {0, 1} # {}) => mem_valid = FALSE
       /\ (t = "Process" /\ 1 \in f) => mem_valid = FALSE
       /\ (t = "Process" /\ f \cap {0, 1} = {0}) => mem_valid = is_valid(f \ {0}, t, o)
       /\ (t = "None" /\ f \cap {0, 1} = {1}) => mem_valid = is_valid(f \ {1}, t, o)
       /\ (t = "None" /\ f \cap {0, 1} = {0}) => (is_valid(f \ {0}, t, o) => mem_valid)
       /\ o = "Bind" => (mem_valid <=> MemPassesTargetRules)

C11_Witness ==
    /\ mem_call.flags = {0, 3}
    /\ mem_call.target = "Process"
    /\ mem_call.operation = "Bind"
    /\ mem_valid = TRUE

\* C12: for every flag set that passes the exclusion and the target rules,
\* GetLastLocation is valid iff none of STRICT, MIGRATE, NO_CPU_BINDING is set;
\* GetBinding iff neither MIGRATE nor NO_CPU_BINDING is set and, on target
\* None, STRICT is not set unless PROCESS is; Unbind iff neither STRICT nor
\* MIGRATE is set; Allocate iff MIGRATE is not set; Bind always.
C12_OperationCompatibility ==
    LET f == mem_call.flags
        t == mem_call.target
        o == mem_call.operation
    IN MemPassesTargetRules =>
           (mem_valid <=>
                CASE o = "GetLastLocation" -> f \cap {2, 3, 4} = {}
                  [] o = "GetBinding" ->
                        /\ f \cap {3, 4} = {}
                        /\ t = "None" => (2 \notin f \/ 0 \in f)
                  [] o = "Unbind" -> f \cap {2, 3} = {}
                  [] o = "Allocate" -> 3 \notin f
                  [] o = "Bind" -> TRUE)

C12_Witness ==
    /\ mem_call.flags = {0, 2}
    /\ mem_call.target = "None"
    /\ mem_call.operation = "GetBinding"
    /\ mem_valid = TRUE


\* ---------------------------------------------------------------------------
\* Error translation of the CPU binding calls

\* the one native invocation of an accepted call
TheNative == native[1]
NativeFailed == TheNative.result < 0

\* C13: in every accepted call, call_hwloc translates the outcome of the native
\* call as follows: a non-negative result gives Ok; a failure with errno ENOSYS
\* gives BadObject carrying the target of the call; a failure with errno EXDEV
\* in a set operation gives BadCpuSet carrying the target and the CPU set the
\* caller requested; a failure with any other errno, or with none, gives the
\* raw hwloc error and no CpuBindingError variant.
C13_CallHwlocTranslation ==
    (Accepted /\ hwloc_ret # None) =>
        LET h == unwrap(hwloc_ret) IN
        /\ Len(native) = 1
        /\ ~NativeFailed => h = [kind |-> "Ok"]
        /\ (NativeFailed /\ TheNative.errno = Some(ENOSYS)) =>
               h = [kind |-> "Err", hybrid |-> "Rust",
                    err |-> [variant |-> "BadObject", object |-> call.target]]
        /\ (NativeFailed /\ TheNative.errno = Some(EXDEV)
                /\ call.operation = "SetBinding") =>
               h = [kind |-> "Err", hybrid |-> "Rust",
                    err |-> [variant |-> "BadCpuSet", object |-> call.target,
                             cpuset |-> unwrap(call.set)]]
        /\ (NativeFailed /\ TheNative.errno \notin {Some(ENOSYS), Some(EXDEV)}) =>
               h = [kind |-> "Err", hybrid |-> "Hwloc",
                    raw_err |-> [api |-> TheNative.api, errno |-> TheNative.errno]]

\* a set operation on a thread failed with EXDEV and reported the requested set
C13_Witness ==
    /\ Accepted
    /\ call.entry = "bind_thread_cpu"
    /\ call.set = Some({1})
    /\ NativeFailed
    /\ TheNative.errno = Some(EXDEV)
    /\ hwloc_ret = Some([kind |-> "Err", hybrid |-> "Rust",
                         err |-> [variant |-> "BadCpuSet", object |-> "Thread",
                                  cpuset |-> {1}]])


\* the call failed: its flags were rejected or its native call reported a failure
CallFailed == Returned /\ (validated = None \/ (native # <<>> /\ NativeFailed))

\* C14: every CPU entry point, bind_cpu included, returns each failure (rejected
\* flags, an unsupported target, an unusable CPU set, any other native error) to
\* its caller as an Err value: no call ends in a panic, whatever result and errno
\* the native call reports.
C14_FailuresAreReturned ==
    /\ Returned => ret.kind # "panic"
    /\ CallFailed => ret.kind = "Err"


\* C15: BadCpuSet comes from set operations only: a query (GetBinding or
\* GetLastLocation) never returns BadCpuSet, and call_hwloc never produces it
\* for a query, whatever result and errno the native call reports.
C15_BadCpuSetFromSetOperationsOnly ==
    (Returned /\ call.operation # "SetBinding") =>
        /\ RetVariant # "BadCpuSet"
        /\ hwloc_ret # None =>
               ("err" \in DOMAIN unwrap(hwloc_ret) =>
                    unwrap(hwloc_ret).err.variant # "BadCpuSet")

\* a query whose native call failed with EXDEV, the errno behind BadCpuSet
C15_Witness ==
    /\ Accepted
    /\ call.entry = "cpu_binding"
    /\ NativeFailed
    /\ TheNative.errno = Some(EXDEV)
    /\ RetVariant # "BadCpuSet"


\* ---------------------------------------------------------------------------
\* Result translation of the memory binding functions

SetupReturned == mem_request.kind = "setup"
QueryReturned == mem_request.kind = "query"

MemRetVariant == IF mem_ret.kind = "Err" THEN mem_ret.err.variant ELSE mem_ret.kind

\* C18: AllocationFailed comes from Allocate operations only: the result
\* translation of a Bind or an Unbind never gives AllocationFailed, whatever
\* result and errno the native function reports.
C18_AllocationFailedFromAllocateOnly ==
    (SetupReturned /\ mem_request.operation \in {"Bind", "Unbind"}) =>
        MemRetVariant # "AllocationFailed"

\* C19: MixedResults is returned only to a query whose flags hold both PROCESS
\* and STRICT, whatever result and errno the native function reports.
C19_MixedResultsOnlyForProcessStrict ==
    (QueryReturned /\ MemRetVariant = "MixedResults") =>
        (MEMBIND_PROCESS \cup MEMBIND_STRICT) \subseteq mem_request.flags


\* ---------------------------------------------------------------------------
\* Effect of the CPU binding calls on the OS

\* the call that has just returned is a bind addressing the observed entity
\* and it returned Ok
OkBindOnObserved ==
    /\ pc = "returned"
    /\ call.operation = "SetBinding"
    /\ <<call.target, call.id>> = observed
    /\ ret.kind = "Ok"

\* C20: through any sequence of CPU binding calls, the OS-level affinity of a
\* process or thread differs from its initial value only if some bind call
\* addressing it has returned Ok; no step changes it except a bind call
\* addressing it that returns Ok, so queries never change it and a bind call
\* that returns an error (or is rejected) leaves it as it was.
C20_AffinityChangesOnlyOnOkBind ==
    /\ [](affinity # InitialAffinity => bound_ok)
    /\ [][affinity' # affinity => OkBindOnObserved']_vars

\* after a bind that installed {0} and returned Ok, a bind on the same thread
\* has failed and the affinity is still {0}
C20_Witness ==
    /\ observed = <<"Thread", MaxPid>>
    /\ affinity = {0}
    /\ bound_ok
    /\ pc = "returned"
    /\ call.entry = "bind_thread_cpu"
    /\ call.id = MaxPid
    /\ call.set = Some({1})
    /\ ret.kind = "Err"
    /\ native # <<>>


\* ---------------------------------------------------------------------------
\* What a query hands back

\* C21: a failed query returns no set. A CPU query returns a CpuSet exactly
\* when its native call succeeded, and it is the set the native call wrote; a
\* memory query evaluates the closure of query_result_lazy once when the
\* result is >= 0 and never when the result is negative.
C21_FailedQueryReturnsNoSet ==
    /\ (Returned /\ call.operation # "SetBinding") =>
           /\ "cpuset" \in DOMAIN ret <=> (native # <<>> /\ ~NativeFailed)
           /\ "cpuset" \in DOMAIN ret => (ret.kind = "Ok" /\ ret.cpuset = TheNative.out)
    /\ QueryReturned =>
           /\ mem_request.result >= 0 => (mem_ret.ok_calls = 1 /\ "value" \in DOMAIN mem_ret)
           /\ mem_request.result < 0 => (mem_ret.ok_calls = 0 /\ "value" \notin DOMAIN mem_ret)

\* a CPU query whose native call wrote {1} and then failed returned no set
C21_Witness ==
    /\ Accepted
    /\ call.entry = "last_cpu_location"
    /\ NativeFailed
    /\ TheNative.out = {1}
    /\ ret.kind = "Err"
    /\ "cpuset" \notin DOMAIN ret


\* ---------------------------------------------------------------------------
\* Bytes

Wrapped == bytes_state # "unwrapped"

\* C22: Bytes::wrap returns None exactly when base is null, whatever len is,
\* and nothing is ever freed for it; for a non-null base it returns a Bytes,
\* and every slice handed out by as_ref / as_mut starts at base and holds
\* exactly len bytes.
C22_WrapNoneIffNull ==
    Wrapped =>
        /\ bytes = None <=> wrapped.base = NULL
        /\ bytes = None => (frees = <<>> /\ view = None)
        /\ view # None =>
               (unwrap(view).ptr = wrapped.base /\ unwrap(view).len = wrapped.len)

\* an allocation of no bytes at a non-null address was wrapped and read
C22_Witness ==
    /\ bytes_state = "Allocated"
    /\ wrapped.base # NULL
    /\ wrapped.len = 0
    /\ view = Some([ptr |-> wrapped.base, len |-> 0, mutable |-> FALSE])

\* the free a wrapped allocation is owed: same topology, base and length
TheFree(result) ==
    [topology |-> wrapped.topology, addr |-> wrapped.base, len |-> wrapped.len,
     result |-> result]

\* C23: a wrapped Bytes goes from Allocated to Released once. While it is
\* Allocated, reads and writes included, nothing has been freed and its
\* topology, pointer and length are the ones it was wrapped with; once it has
\* been dropped, hwloc_free has been called exactly one time, with that
\* topology, pointer and length.
C23_FreedExactlyOnce ==
    /\ Len(frees) <= 1
    /\ bytes_state = "Allocated" =>
           /\ frees = <<>>
           /\ bytes = Some([topology |-> wrapped.topology,
                            data |-> [ptr |-> wrapped.base, len |-> wrapped.len]])
    /\ bytes_state \in {"Released", "panicked"} =>
           /\ Len(frees) = 1
           /\ frees[1] = TheFree(frees[1].result)
    /\ bytes_state \in {"unwrapped", "refused"} => frees = <<>>

\* a Bytes that was dropped: one free, with what it was wrapped with
C23_Witness ==
    /\ bytes_state = "Released"
    /\ wrapped = [topology |-> MaxTopology, base |-> MaxAddr, len |-> MaxLen]
    /\ frees = <<TheFree(0)>>

\* C24: when the hwloc_free made by drop returns anything but 0, the drop
\* ends in a panic and not in a normal return; when it returns 0 the drop
\* completes.
C24_FreeFailureIsFatal ==
    frees # <<>> =>
        /\ frees[Len(frees)].result # 0 => bytes_state = "panicked"
        /\ frees[Len(frees)].result = 0 => bytes_state = "Released"

\* hwloc_free returned a positive value and the drop panicked
C24_Witness ==
    /\ frees # <<>>
    /\ frees[1].result = MaxResult
    /\ bytes_state = "panicked"


\* ---------------------------------------------------------------------------
\* Children of a TopologyObject

\* the list of children the object holds from the given first child on
ChildrenFrom(first) == linked_list(first, children.sibling, MaxObject)

\* C25: memory_children and io_children yield the memory (resp. I/O) children
\* of the object: each object of the list that starts at memory_first_child
\* (resp. io_first_child) and follows next_sibling, once and in list order;
\* the walk ends at the first null link without dereferencing it, and a null
\* first child yields nothing.
C25_LinkedChildrenYielded ==
    /\ children.method = "memory_children" =>
           /\ children.yielded = ChildrenFrom(children.obj.memory_first_child)
           /\ ~children.null_deref
           /\ ~children.fault
    /\ children.method = "io_children" =>
           /\ children.yielded = ChildrenFrom(children.obj.io_first_child)
           /\ ~children.null_deref
           /\ ~children.fault

\* C26: misc_children yields the Misc children of the object: it starts at
\* misc_first_child, not at io_first_child, and yields that list.
C26_MiscChildrenAreMisc ==
    children.method = "misc_children" =>
        /\ children.start = children.obj.misc_first_child
        /\ children.yielded = ChildrenFrom(children.obj.misc_first_child)


\* ---------------------------------------------------------------------------
\* TextualInfo

\* C27: two TextualInfo compare equal exactly when their names are equal and
\* their values are equal, for every four strings.
C27_EqIffNamesAndValuesEqual ==
    info_eq.compared =>
        (info_eq.equal <=>
            (info_eq.name1 = info_eq.name2 /\ info_eq.value1 = info_eq.value2))

\* two infos over equal non-empty strings held in separate buffers compare equal
C27_Witness ==
    /\ info_eq.compared
    /\ info_eq.name1 = <<MaxChar>>
    /\ info_eq.name2 = <<MaxChar>>
    /\ info_eq.value1 = <<1>>
    /\ info_eq.value2 = <<1>>
    /\ info_eq.equal


\* ---------------------------------------------------------------------------
\* What the errors of the CPU binding calls carry

\* C28: when a CPU binding entry point rejects a request, the BadFlags error
\* carries exactly the flags the caller passed, ASSUME_SINGLE_THREAD included
\* when it was requested, and not a normalized copy.
C28_BadFlagsCarriesRequestedFlags ==
    Rejected =>
        /\ ret.kind = "Err"
        /\ ret.err = [variant |-> "BadFlags", flags |-> call.flags]

\* bind_cpu rejected {ASSUME_SINGLE_THREAD, PROCESS} and returned both flags
C28_Witness ==
    /\ Rejected
    /\ call.entry = "bind_cpu"
    /\ call.flags = ASSUME_SINGLE_THREAD \cup PROCESS
    /\ ret.err.flags = ASSUME_SINGLE_THREAD \cup PROCESS


\* C29: for every flag set built from the five CPU flags that validate
\* accepts, the bits of the normalized flags have bit 31 clear (they are at
\* most 15), so their conversion to a signed 32-bit integer succeeds, the
\* "Unexpected high order bit in flags" panic does not happen, and the native
\* function receives the same number.
C29_NormalizedBitsFitI32 ==
    Accepted =>
        LET u == bits(unwrap(validated)) IN
        /\ u.hi = 0
        /\ u.lo \in 0..15
        /\ i32_try_from(u) = Some(u.lo)
        /\ Len(native) = 1
        /\ TheNative.flags = u.lo
        /\ ret # Panic("Unexpected high order bit in flags")

\* {ASSUME_SINGLE_THREAD, STRICT} was accepted and the native call received 4
C29_Witness ==
    /\ Accepted
    /\ call.entry = "bind_cpu"
    /\ call.flags = ASSUME_SINGLE_THREAD \cup STRICT
    /\ bits(call.flags).hi = 1
    /\ TheNative.flags = 4


\* ---------------------------------------------------------------------------
\* The operations, from the strictest to the most lenient

\* C30: in both validators the operations are ordered by strictness. For the
\* flags of any CPU binding call and every target, flags validate accepts for
\* GetLastLocation are accepted for GetBinding, and flags accepted for
\* GetBinding are accepted for SetBinding, with the same normalized flags each
\* time. For the flags of any is_valid call and every target, flags valid for
\* GetLastLocation are valid for GetBinding, and flags valid for any operation
\* are valid for Bind.
C30_OperationStrictnessMonotone ==
    /\ Returned =>
           \A t \in CpuBoundObject :
               /\ validate(call.flags, t, "GetLastLocation") # None =>
                      validate(call.flags, t, "GetBinding")
                          = validate(call.flags, t, "GetLastLocation")
               /\ validate(call.flags, t, "GetBinding") # None =>
                      validate(call.flags, t, "SetBinding")
                          = validate(call.flags, t, "GetBinding")
    /\ (Accepted /\ call.operation # "SetBinding") =>
           validate(call.flags, call.target, "SetBinding") = validated
    /\ \A t \in MemoryBindingTarget :
           /\ is_valid(mem_call.flags, t, "GetLastLocation") =>
                  is_valid(mem_call.flags, t, "GetBinding")
           /\ \A o \in MemoryBindingOperation :
                  is_valid(mem_call.flags, t, o) => is_valid(mem_call.flags, t, "Bind")
    /\ mem_valid => is_valid(mem_call.flags, mem_call.target, "Bind")

\* a last-location query was accepted with {PROCESS}; the same flags give
\* the same normalized flags for SetBinding
C30_Witness ==
    /\ Accepted
    /\ call.entry = "last_cpu_location"
    /\ call.flags = PROCESS
    /\ validated = Some(PROCESS)
    /\ validate(call.flags, call.target, "SetBinding") = validated

====
